---- MODULE Spec2Model ----
(***************************************************************************)
(* Model of the endlesspan analyzer (src/endlesspan.go, func run).         *)
(*                                                                         *)
(* The analyzer registers one callback with inspector.Preorder.  The       *)
(* callback is invoked once per node of the kinds in nodeFilter, when the  *)
(* traversal ENTERS the node (pre-order); nothing is called when the       *)
(* traversal leaves a node.  The model generates the analyzed file one     *)
(* node at a time and applies the callback to every node it generates.     *)
(*                                                                         *)
(* Program state: funcStack, findings.                                     *)
(* Traversal state (the input): pos, lex, objPos, objScope.                 *)
(* History of the analyzed file (read by the properties only): hist.       *)
(* A second analyzer state, solo, is the same callback run on the current  *)
(* top-level function alone (for the independence property).               *)
(***************************************************************************)
EXTENDS Integers, Sequences, FiniteSets, TLC

VARIABLES funcStack, findings, pos, lex, objPos, objScope, hist, solo

vars == <<funcStack, findings, pos, lex, objPos, objScope, hist, solo>>

\* Number of nodes of the analyzed file (the nodes are numbered 1, 2, ..).
MaxPos == 5

\* The variables (types.Object) of the analyzed file whose type is assignable
\* to the span type, and those whose type is not.
Objs == {1, 2}

Others == {3}

\* pass.TypesInfo.ObjectOf returns nil (e.g. for the blank identifier).
NoObj == 0

MissingRelease == "missing span.End() call in the scope"

PreferDeferredRelease == "you may want to defer the span.End() call"

(***************************************************************************)
(* Go maps keyed by types.Object: a function with a finite domain.         *)
(* Reading a missing key of a map[..]bool yields false.                    *)
(***************************************************************************)
EmptyMap == [o \in {} |-> FALSE]

Lookup(m, o) == IF o \in DOMAIN m THEN m[o] ELSE FALSE

Put(m, o, v) == [x \in (DOMAIN m) \cup {o} |-> IF x = o THEN v ELSE m[x]]

\* &funcInfo{spans: make(..), hasDefer: make(..), returned: make(..)}
NewFuncInfo == [spans |-> EmptyMap, hasDefer |-> EmptyMap, returned |-> EmptyMap]

\* funcStack[len(funcStack)-1]
Top(stack) == stack[Len(stack)]

SetTop(stack, info) == [stack EXCEPT ![Len(stack)] = info]

\* A source position (token.Pos): node p of the file, or, within a return
\* statement, its i-th result expression.
Position(p, i) == <<p, i>>

\* A finding: pass.Reportf(position, message).  obj names the variable the
\* reported node refers to and fn the function literally enclosing the
\* reported node; both are annotations the properties read, not the code.
Finding(p, k, o, f) == [pos |-> p, kind |-> k, obj |-> o, fn |-> f]

(***************************************************************************)
(* The nodes the traversal hands to the callback.                          *)
(***************************************************************************)
\* *ast.AssignStmt: len(n.Lhs), len(n.Rhs), whether n.Rhs[0] is a call,
\* whether call.Fun is a selector and its name, whether n.Lhs[1] is an
\* identifier, and the object that identifier resolves to.
AssignNode(nl, nr, c, fs, s, li, o) ==
    [nLhs |-> nl, nRhs |-> nr, rhsCall |-> c, funSel |-> fs, sel |-> s,
     lhsIdent |-> li, obj |-> o]

StartAssign(o) == AssignNode(2, 1, TRUE, TRUE, "Start", TRUE, o)

AssignNodes ==
    {StartAssign(o) : o \in Objs \cup Others \cup {NoObj}}
    \cup {AssignNode(1, 1, TRUE, TRUE, "Start", FALSE, NoObj),
          AssignNode(2, 2, FALSE, FALSE, "", TRUE, 1),
          AssignNode(2, 1, FALSE, FALSE, "", TRUE, 1),
          AssignNode(2, 1, TRUE, FALSE, "", TRUE, 1),
          AssignNode(2, 1, TRUE, TRUE, "Other", TRUE, 1),
          AssignNode(2, 1, TRUE, TRUE, "Start", FALSE, NoObj)}

\* *ast.DeferStmt: whether n.Call.Fun is a selector and its name, whether
\* its receiver is an identifier, and the object it resolves to.
DeferNode(fs, s, ri, o) == [funSel |-> fs, sel |-> s, recvIdent |-> ri, obj |-> o]

DeferEnd(o) == DeferNode(TRUE, "End", TRUE, o)

DeferNodes ==
    {DeferEnd(o) : o \in Objs}
    \cup {DeferNode(FALSE, "", FALSE, NoObj),
          DeferNode(TRUE, "Other", TRUE, 1),
          DeferNode(TRUE, "End", FALSE, NoObj)}

\* The result expressions of a *ast.ReturnStmt: an identifier, a call
\* x.End() on an identifier, or anything else.
Ident(o) == [kind |-> "ident", obj |-> o]

EndCall(o) == [kind |-> "end", obj |-> o]

OtherExpr == [kind |-> "other", obj |-> NoObj]

Exprs == {Ident(o) : o \in Objs} \cup {EndCall(o) : o \in Objs} \cup {OtherExpr}

ResultLists ==
    {<<>>} \cup {<<e>> : e \in Exprs}
    \cup {<<e1, e2>> : e1 \in Exprs \ {OtherExpr}, e2 \in {EndCall(o) : o \in Objs}}

(***************************************************************************)
(* The callback, one operator per case of its switch.                      *)
(***************************************************************************)
\* types.AssignableTo(spanObj.Type(), spanType)
AssignableTo(o) == o \in Objs

\* case *ast.FuncDecl, *ast.FuncLit: push a new function context.
Push(stack) == Append(stack, NewFuncInfo)

\* (OnAssign creating a context when the stack is empty.)
OnAssignAutoPush(stack, n) ==
    LET st == IF Len(stack) = 0 THEN Push(stack) ELSE stack
    IN IF n.nLhs # 2 \/ n.nRhs # 1 THEN stack
       ELSE IF ~n.rhsCall THEN stack
       ELSE IF ~n.funSel \/ n.sel # "Start" THEN stack
       ELSE IF ~n.lhsIdent THEN stack
       ELSE IF n.obj = NoObj THEN stack
       ELSE IF AssignableTo(n.obj)
            THEN SetTop(st, [Top(st) EXCEPT !.spans = Put(@, n.obj, FALSE)])
            ELSE stack

\* (OnAssign keeping the entry of a span that is already tracked.)
OnAssignKeepEntry(stack, n) ==
    IF Len(stack) = 0 THEN stack
    ELSE IF n.nLhs # 2 \/ n.nRhs # 1 THEN stack
    ELSE IF ~n.rhsCall THEN stack
    ELSE IF ~n.funSel \/ n.sel # "Start" THEN stack
    ELSE IF ~n.lhsIdent THEN stack
    ELSE IF n.obj = NoObj THEN stack
    ELSE IF AssignableTo(n.obj) /\ n.obj \notin DOMAIN Top(stack).spans
         THEN SetTop(stack, [Top(stack) EXCEPT !.spans = Put(@, n.obj, FALSE)])
         ELSE stack

\* case *ast.AssignStmt
OnAssign(stack, n) ==
    IF Len(stack) = 0 THEN stack
    ELSE IF n.nLhs # 2 \/ n.nRhs # 1 THEN stack
    ELSE IF ~n.rhsCall THEN stack
    ELSE IF ~n.funSel \/ n.sel # "Start" THEN stack
    ELSE IF ~n.lhsIdent THEN stack
    ELSE IF n.obj = NoObj THEN stack
    ELSE IF AssignableTo(n.obj)
         THEN SetTop(stack, [Top(stack) EXCEPT !.spans = Put(@, n.obj, FALSE)])
         ELSE stack

\* (OnDefer marking every tracked span of the context, as matching the
\* receiver by something coarser than its object would.)
OnDeferAnySpan(stack, n) ==
    IF Len(stack) = 0 THEN stack
    ELSE IF ~n.funSel \/ n.sel # "End" THEN stack
    ELSE IF n.recvIdent /\ n.obj # NoObj /\ n.obj \in DOMAIN Top(stack).spans
         THEN SetTop(stack,
                [Top(stack) EXCEPT
                   !.spans = [o \in DOMAIN @ |-> TRUE],
                   !.hasDefer = [o \in DOMAIN Top(stack).spans |-> TRUE]])
         ELSE stack

\* case *ast.DeferStmt
OnDefer(stack, n) ==
    IF Len(stack) = 0 THEN stack
    ELSE IF ~n.funSel \/ n.sel # "End" THEN stack
    ELSE IF n.recvIdent /\ n.obj # NoObj /\ n.obj \in DOMAIN Top(stack).spans
         THEN SetTop(stack, [Top(stack) EXCEPT !.spans = Put(@, n.obj, TRUE),
                                               !.hasDefer = Put(@, n.obj, TRUE)])
         ELSE stack

\* case *ast.ReturnStmt, first loop: results that are tracked identifiers.
ReturnedIdents(info, results) ==
    {results[i].obj : i \in {j \in 1..Len(results) :
        results[j].kind = "ident" /\ results[j].obj \in DOMAIN info.spans}}

\* case *ast.ReturnStmt, second loop: results that are End() calls on a
\* tracked identifier.
EndedByReturn(info, results) ==
    {results[i].obj : i \in {j \in 1..Len(results) :
        results[j].kind = "end" /\ results[j].obj \in DOMAIN info.spans}}

OnReturn(stack, results) ==
    IF Len(stack) = 0 THEN stack
    ELSE LET info == Top(stack)
             rets == ReturnedIdents(info, results)
             ends == EndedByReturn(info, results)
         IN SetTop(stack,
              [info EXCEPT
                 !.returned = [o \in (DOMAIN @) \cup rets |->
                                 IF o \in rets THEN TRUE ELSE @[o]],
                 !.spans = [o \in DOMAIN @ |-> IF o \in ends THEN TRUE ELSE @[o]]])

\* The advisory of the second loop: reported at call.Pos() when the span has
\* no entry in hasDefer at the time the return statement is visited.
AdvisoryDue(info, e) ==
    e.kind = "end" /\ e.obj \in DOMAIN info.spans /\ ~Lookup(info.hasDefer, e.obj)

ReturnReports(stack, results, p, f) ==
    IF Len(stack) = 0 THEN <<>>
    ELSE LET info == Top(stack)
             cand == [i \in 1..Len(results) |->
                        [due |-> AdvisoryDue(info, results[i]),
                         finding |-> Finding(Position(p, i), PreferDeferredRelease,
                                             results[i].obj, f)]]
             Due(c) == c.due
             sel == SelectSeq(cand, Due)
         IN [i \in 1..Len(sel) |-> sel[i].finding]

\* "When leaving a function": the spans of a context that are neither ended
\* nor returned.
Unended(info) ==
    {o \in DOMAIN info.spans : ~info.spans[o] /\ ~Lookup(info.returned, o)}

\* (LeaveTargets checking every context of the stack and not only its top.)
LeaveTargetsAll(stack) ==
    UNION {Unended(stack[i]) : i \in 1..Len(stack)}

\* The check after the switch, taken on currentFunc = the top of the stack
\* as it is after the switch has pushed the context of the FuncDecl.
LeaveTargets(stack) ==
    IF Len(stack) > 0 THEN Unended(Top(stack)) ELSE {}

\* funcStack = funcStack[:len(funcStack)-1]
Pop(stack) == IF Len(stack) > 0 THEN SubSeq(stack, 1, Len(stack) - 1) ELSE stack

\* The orders in which `for span, ended := range currentFunc.spans` may
\* visit a set of map keys.
Orders(S) ==
    {q \in [1..Cardinality(S) -> S] : \A o \in S : \E i \in DOMAIN q : q[i] = o}

(***************************************************************************)
(* The analyzed file, as the traversal has seen it so far.                 *)
(***************************************************************************)
\* lex: the functions whose bodies enclose the next node, outermost first;
\* each with its node (id), its kind ("decl" or "lit") and whether the check
\* "when leaving a function" has already been taken for it (checked).
\* The function (FuncDecl or FuncLit node, named by its position) whose body
\* literally encloses the next node; 0 at package level.
CurFn == IF lex = <<>> THEN 0 ELSE lex[Len(lex)].id

CurKind == IF lex = <<>> THEN "none" ELSE lex[Len(lex)].kind

\* What the file does with object o, as far as the traversal has come:
\*   nAcq       number of acquisitions `_, o := tracer.Start(..)` (2: several)
\*   acqPos     node of the first acquisition; acqFn the function whose body
\*              holds it; acqLit: that function is a function literal
\*   rel        some release of o (defer o.End(), o.End(), return o.End())
\*   ret        some return statement names o
\*   retSeen    a return statement of acqFn follows the acquisition
\*   defer      defer o.End() in acqFn after the acquisition: "uncond" when
\*              one is outside every branch and before every return of
\*              acqFn, "cond" when there are only others, "none"
\*   directPos  node of the first statement o.End() of acqFn that follows the
\*              acquisition outside every branch and before every return
\*   directCond a statement o.End() of acqFn inside a branch or after a return
\*   retSame    a return statement of acqFn names o after the acquisition
\*   retEnd     some return statement has the result o.End()
\*   reacq      o was acquired again while no release of o had been seen
NoHist ==
    [nAcq |-> 0, acqPos |-> 0, acqFn |-> 0, acqLit |-> FALSE, rel |-> FALSE,
     ret |-> FALSE, retSeen |-> FALSE, defer |-> "none", directPos |-> 0,
     directCond |-> FALSE, retSame |-> FALSE, retEnd |-> FALSE, reacq |-> FALSE]

\* o has been acquired and the next node is in the body of the acquiring
\* function itself.
InAcqFn(o) == hist[o].nAcq > 0 /\ hist[o].acqFn = CurFn

HistAcquire(h, o) ==
    IF h[o].nAcq = 0
    THEN [h EXCEPT ![o].nAcq = 1, ![o].acqPos = pos, ![o].acqFn = CurFn,
                   ![o].acqLit = (CurKind = "lit")]
    ELSE [h EXCEPT ![o].nAcq = 2, ![o].reacq = @ \/ ~h[o].rel]

HistDefer(h, o, c) ==
    [h EXCEPT ![o].rel = TRUE,
              ![o].defer = IF ~InAcqFn(o) THEN @
                           ELSE IF ~c /\ ~h[o].retSeen THEN "uncond"
                           ELSE IF @ = "none" THEN "cond" ELSE @]

HistDirect(h, o, c) ==
    [h EXCEPT ![o].rel = TRUE,
              ![o].directCond = @ \/ (InAcqFn(o) /\ (c \/ h[o].retSeen)),
              ![o].directPos = IF InAcqFn(o) /\ ~c /\ ~h[o].retSeen /\ @ = 0
                               THEN pos ELSE @]

HistReturn(h, results) ==
    [o \in Objs |->
       LET named == \E i \in 1..Len(results) : results[i] = Ident(o)
           ended == \E i \in 1..Len(results) : results[i] = EndCall(o)
       IN [h[o] EXCEPT !.ret = @ \/ named,
                       !.retSame = @ \/ (named /\ InAcqFn(o)),
                       !.rel = @ \/ ended,
                       !.retEnd = @ \/ ended,
                       !.retSeen = @ \/ InAcqFn(o)]]

\* The callback run on the current top-level function alone.
NewSolo(p) == [stack |-> <<>>, findings |-> <<>>, start |-> p]

SoloBase == IF lex = <<>> THEN NewSolo(pos) ELSE solo

\* Objects are numbered in the order in which the file declares them.
MayDeclare(o) == objPos[o] = 0 /\ \A x \in Objs : x < o => objPos[x] # 0

\* o is declared (objPos[o] is the node that declares it) and in scope at the
\* next node: declared at package level (objScope[o] = 0) or in the body of
\* a function that encloses the next node.
Visible(o) ==
    /\ objPos[o] # 0
    /\ objScope[o] = 0 \/ \E i \in 1..Len(lex) : lex[i].id = objScope[o]

(***************************************************************************)
(* Initial state: run() before the traversal has visited any node.         *)
(***************************************************************************)
Init ==
    /\ funcStack = <<>>
    /\ findings = <<>>
    /\ pos = 1
    /\ lex = <<>>
    /\ objPos = [o \in Objs |-> 0]
    /\ objScope = [o \in Objs |-> 0]
    /\ hist = [o \in Objs |-> NoHist]
    /\ solo = NewSolo(1)

\* The MissingRelease findings of the leave check, reported at span.Pos() in
\* the order ord in which the range loop visits the spans.
MissingFindings(ord, f) ==
    [i \in 1..Len(ord) |-> Finding(Position(objPos[ord[i]], 0), MissingRelease, ord[i], f)]

(***************************************************************************)
(* One action per node kind the traversal visits.                          *)
(***************************************************************************)
\* A function declaration (package level only): the switch pushes a context,
\* then the check after the switch reports on the top context and pops it.
FuncDecl ==
    /\ pos <= MaxPos /\ lex = <<>>
    /\ \E ord \in Orders(LeaveTargets(Push(funcStack))) :
         findings' = findings \o MissingFindings(ord, pos)
    /\ funcStack' = Pop(Push(funcStack))
    /\ \E ord \in Orders(LeaveTargets(Push(<<>>))) :
         solo' = [NewSolo(pos) EXCEPT
                    !.findings = MissingFindings(ord, pos),
                    !.stack = Pop(Push(<<>>))]
    /\ lex' = Append(lex, [id |-> pos, kind |-> "decl",
                            checked |-> Len(Push(funcStack)) > 0])
    /\ pos' = pos + 1
    /\ UNCHANGED <<objPos, objScope, hist>>

\* A function literal, at package level or inside a function body: the
\* switch pushes a context; the check after the switch does not apply.
FuncLit ==
    /\ pos <= MaxPos
    /\ funcStack' = Push(funcStack)
    /\ solo' = [SoloBase EXCEPT !.stack = Push(@)]
    /\ lex' = Append(lex, [id |-> pos, kind |-> "lit", checked |-> FALSE])
    /\ pos' = pos + 1
    /\ UNCHANGED <<findings, objPos, objScope, hist>>

\* An assignment statement in a function body.  `_, o := tracer.Start(..)`
\* declares o when o is not declared yet.
Assign(n) ==
    /\ pos <= MaxPos /\ lex # <<>>
    /\ n.obj \in Objs => (Visible(n.obj) \/ (n = StartAssign(n.obj) /\ MayDeclare(n.obj)))
    /\ funcStack' = OnAssign(funcStack, n)
    /\ solo' = [solo EXCEPT !.stack = OnAssign(@, n)]
    /\ IF n = StartAssign(n.obj) /\ n.obj \in Objs
       THEN /\ hist' = HistAcquire(hist, n.obj)
            /\ objPos' = IF objPos[n.obj] = 0 THEN [objPos EXCEPT ![n.obj] = pos]
                         ELSE objPos
            /\ objScope' = IF objPos[n.obj] = 0 THEN [objScope EXCEPT ![n.obj] = CurFn]
                           ELSE objScope
       ELSE UNCHANGED <<hist, objPos, objScope>>
    /\ pos' = pos + 1
    /\ UNCHANGED <<findings, lex>>

\* A defer statement in a function body; c: it is inside a conditional
\* branch of that body.
Defer(n, c) ==
    /\ pos <= MaxPos /\ lex # <<>>
    /\ n.obj \in Objs => Visible(n.obj)
    /\ funcStack' = OnDefer(funcStack, n)
    /\ solo' = [solo EXCEPT !.stack = OnDefer(@, n)]
    /\ hist' = IF n = DeferEnd(n.obj) /\ n.obj \in Objs
               THEN HistDefer(hist, n.obj, c) ELSE hist
    /\ pos' = pos + 1
    /\ UNCHANGED <<findings, lex, objPos, objScope>>

\* A return statement in a function body.
Return(results) ==
    /\ pos <= MaxPos /\ lex # <<>>
    /\ \A i \in 1..Len(results) : results[i].obj \in Objs => Visible(results[i].obj)
    /\ funcStack' = OnReturn(funcStack, results)
    /\ findings' = findings \o ReturnReports(funcStack, results, pos, CurFn)
    /\ solo' = [solo EXCEPT !.stack = OnReturn(@, results),
                            !.findings = @ \o ReturnReports(solo.stack, results, pos, CurFn)]
    /\ hist' = HistReturn(hist, results)
    /\ pos' = pos + 1
    /\ UNCHANGED <<lex, objPos, objScope>>

\* A node of a kind that is not in nodeFilter, so the callback is not
\* invoked: an expression statement `o.End()` (c: inside a conditional
\* branch) or a declaration `var o trace.Span`.
Unfiltered(k, o, c) ==
    /\ pos <= MaxPos
    /\ \/ /\ k = "end" /\ lex # <<>> /\ Visible(o)
          /\ hist' = HistDirect(hist, o, c)
          /\ UNCHANGED <<objPos, objScope>>
       \/ /\ k = "decl" /\ ~c /\ MayDeclare(o)
          /\ objPos' = [objPos EXCEPT ![o] = pos]
          /\ objScope' = [objScope EXCEPT ![o] = CurFn]
          /\ UNCHANGED hist
    /\ pos' = pos + 1
    /\ UNCHANGED <<funcStack, findings, lex, solo>>

\* The traversal passes the end of a function body; Preorder calls nothing.
Leave ==
    /\ lex # <<>>
    /\ lex' = SubSeq(lex, 1, Len(lex) - 1)
    /\ UNCHANGED <<funcStack, findings, pos, objPos, objScope, hist, solo>>

Next ==
    \/ FuncDecl
    \/ FuncLit
    \/ \E n \in AssignNodes : Assign(n)
    \/ \E n \in DeferNodes, c \in BOOLEAN : Defer(n, c)
    \/ \E r \in ResultLists : Return(r)
    \/ \E k \in {"end", "decl"}, o \in Objs, c \in BOOLEAN : Unfiltered(k, o, c)
    \/ Leave

Spec == Init /\ [][Next]_vars

(***************************************************************************)
(* Properties.                                                             *)
(***************************************************************************)
\* The traversal is at package level: the file may end here, and every
\* function visited so far has been visited completely.
FileEnd == lex = <<>>

\* Number of findings of kind k at position q.
CountAt(q, k) ==
    Cardinality({i \in 1..Len(findings) :
                    findings[i].pos = q /\ findings[i].kind = k})

\* The position of the identifier that declares o.
DeclPos(o) == Position(objPos[o], 0)

\* o is declared by its one acquisition `_, o := tracer.Start(..)`.
AcquiredOnce(o) == hist[o].nAcq = 1 /\ objPos[o] = hist[o].acqPos

\* Some finding is about o: a MissingRelease at its declaration or an
\* advisory at a call o.End().
FindingAbout(o) ==
    \E i \in 1..Len(findings) :
        \/ findings[i].kind = MissingRelease /\ findings[i].pos = DeclPos(o)
        \/ findings[i].kind = PreferDeferredRelease /\ findings[i].obj = o

\* A function declaration that follows the acquisition of o is being
\* visited: the check "when leaving a function" has run since.
CheckedSince(o) ==
    lex # <<>> /\ lex[1].kind = "decl" /\ lex[1].id > hist[o].acqPos

\* C1: a function that acquires o once and neither releases nor returns it
\* gets exactly one MissingRelease finding, at the acquisition of o.
C1_LeakReportedOnce ==
    FileEnd =>
      \A o \in Objs :
        (AcquiredOnce(o) /\ ~hist[o].rel /\ ~hist[o].ret)
          => CountAt(DeclPos(o), MissingRelease) = 1

\* C2: when the acquisition of o is followed in the same function,
\* unconditionally, by defer o.End(), no MissingRelease is reported for o,
\* whatever follows the defer; with that one acquisition there is no finding
\* about o at all.
C2_DeferredNeverMissing ==
    \A o \in Objs :
      (AcquiredOnce(o) /\ hist[o].defer = "uncond") => ~FindingAbout(o)

\* C2 witness: o is tracked with its defer recorded, a return statement
\* follows the defer, and a later function declaration has run the check.
C2_Witness ==
    \E o \in Objs :
      /\ AcquiredOnce(o) /\ hist[o].defer = "uncond" /\ hist[o].retSeen
      /\ \E i \in 1..Len(funcStack) : Lookup(funcStack[i].hasDefer, o)
      /\ CheckedSince(o)

\* C3: when a return statement of the acquiring function names o, no
\* MissingRelease is reported for o, whether or not a release exists and
\* whether the function is a declaration or a literal.
C3_ReturnedNeverMissing ==
    \A o \in Objs :
      hist[o].retSame => CountAt(DeclPos(o), MissingRelease) = 0

\* C3 witness: o is tracked and recorded as returned, no release of o
\* exists, and a later function declaration has run the check.
C3_Witness ==
    \E o \in Objs :
      /\ hist[o].retSame /\ ~hist[o].rel
      /\ \E i \in 1..Len(funcStack) : Lookup(funcStack[i].returned, o)
      /\ CheckedSince(o)

\* C4: a direct release statement o.End() that follows the acquisition on
\* every path, with no deferred release, gets exactly one
\* PreferDeferredRelease advisory at the call, and o gets no MissingRelease.
C4_DirectReleaseAdvised ==
    FileEnd =>
      \A o \in Objs :
        (AcquiredOnce(o) /\ hist[o].directPos # 0 /\ hist[o].defer = "none")
          => /\ CountAt(Position(hist[o].directPos, 0), PreferDeferredRelease) = 1
             /\ CountAt(DeclPos(o), MissingRelease) = 0

\* C5: when the only release of o is a direct release on some but not all
\* paths, MissingRelease is reported exactly once, at the acquisition.
C5_PartialReleaseReported ==
    FileEnd =>
      \A o \in Objs :
        (/\ AcquiredOnce(o) /\ hist[o].directCond /\ hist[o].directPos = 0
         /\ hist[o].defer = "none" /\ ~hist[o].ret /\ ~hist[o].retEnd)
          => CountAt(DeclPos(o), MissingRelease) = 1

\* C6: a function literal that acquires o and never releases or returns it
\* gets a MissingRelease at the acquisition, whatever the enclosing function
\* does with its own bindings.
C6_LiteralLeakReported ==
    FileEnd =>
      \A o \in Objs :
        (AcquiredOnce(o) /\ hist[o].acqLit /\ ~hist[o].rel /\ ~hist[o].ret)
          => CountAt(DeclPos(o), MissingRelease) >= 1

\* C7: when o is acquired a second time before the first acquisition has
\* been released, MissingRelease is reported at the first acquisition, even
\* if the second acquisition is released afterwards.
C7_ReacquiredReported ==
    FileEnd =>
      \A o \in Objs :
        (hist[o].reacq /\ objPos[o] = hist[o].acqPos)
          => CountAt(DeclPos(o), MissingRelease) >= 1

\* The findings positioned inside the current top-level function.
InCurrentUnit(f) == f.pos[1] >= solo.start

\* C8: the findings positioned inside a top-level function are those the
\* analysis of that function alone produces, whatever precedes it in the file.
C8_FunctionsIndependent ==
    SelectSeq(findings, InCurrentUnit) = solo.findings

\* C9: a deferred release inside a conditional branch does not mark the
\* binding released on all paths, and MissingRelease is reported at the
\* acquisition.
C9_ConditionalDeferNotCovering ==
    \A o \in Objs :
      (/\ AcquiredOnce(o) /\ hist[o].defer = "cond" /\ hist[o].directPos = 0
       /\ ~hist[o].directCond /\ ~hist[o].ret /\ ~hist[o].retEnd)
        => /\ \A i \in 1..Len(funcStack) :
                o \in DOMAIN funcStack[i].spans => ~funcStack[i].spans[o]
           /\ FileEnd => CountAt(DeclPos(o), MissingRelease) >= 1

\* C10: when the acquiring function contains defer o.End(), no
\* PreferDeferredRelease is reported for o in that function, whether the
\* defer is visited before or after the direct release.
C10_NoAdvisoryWhenDeferred ==
    \A o \in Objs :
      hist[o].defer # "none"
        => ~\E i \in 1..Len(findings) :
              /\ findings[i].kind = PreferDeferredRelease
              /\ findings[i].obj = o
              /\ findings[i].fn = hist[o].acqFn

\* The callback is handed an assignment, a defer or a return statement.
StatementEvent ==
    \/ \E n \in AssignNodes : Assign(n)
    \/ \E n \in DeferNodes, c \in BOOLEAN : Defer(n, c)
    \/ \E r \in ResultLists : Return(r)

\* C11: the check for never-ended spans of a function is taken when leaving
\* it: no assignment, defer or return statement of its body is processed
\* after the check of that function has been taken.
C11_CheckAfterBody ==
    [][StatementEvent => ~lex[Len(lex)].checked]_vars

\* C12: at every statement the depth of funcStack is the number of functions
\* enclosing the statement, and the stack is empty once the file has been
\* traversed.
C12_StackDiscipline ==
    /\ lex # <<>> => Len(funcStack) = Len(lex)
    /\ FileEnd => funcStack = <<>>

\* C13: in a function that returns binding a and also acquires binding b,
\* which it neither releases nor returns, a gets no MissingRelease and b gets
\* one, at its acquisition.
C13_OtherBindingStillChecked ==
    FileEnd =>
      \A a \in Objs, b \in Objs :
        (/\ a # b /\ AcquiredOnce(a) /\ AcquiredOnce(b)
         /\ hist[a].acqFn = hist[b].acqFn
         /\ hist[a].retSame /\ ~hist[b].rel /\ ~hist[b].ret)
          => /\ CountAt(DeclPos(a), MissingRelease) = 0
             /\ CountAt(DeclPos(b), MissingRelease) >= 1

\* What context i of a stack records about object o.
StatusOf(stack, i, o) ==
    [tracked |-> o \in DOMAIN stack[i].spans,
     ended |-> Lookup(stack[i].spans, o),
     deferred |-> Lookup(stack[i].hasDefer, o),
     returned |-> Lookup(stack[i].returned, o)]

\* The step leaves what every context records about o as it is.
StatusKept(o) ==
    /\ Len(funcStack') = Len(funcStack)
    /\ \A i \in 1..Len(funcStack) :
         StatusOf(funcStack', i, o) = StatusOf(funcStack, i, o)

\* The objects a return statement names, as an identifier or as the
\* receiver of End().
NamedIn(results) == {results[i].obj : i \in 1..Len(results)}

\* The End() calls among the results of a return statement.
NamedEnds(results) == {results[i] : i \in {j \in 1..Len(results) : results[j].kind = "end"}}

\* C14: a release (deferred, or direct in a return statement) or a return
\* whose receiver or operand resolves to object b1 leaves the released,
\* deferred and returned status of every other object b2 unchanged.
C14_ReleaseMatchedByIdentity ==
    [][\A b2 \in Objs :
         \/ StatusKept(b2)
         \/ /\ \A b1 \in Objs \ {b2}, c \in BOOLEAN : ~Defer(DeferEnd(b1), c)
            /\ \A r \in ResultLists : b2 \in NamedIn(r) \/ ~Return(r)]_vars

\* C14 witness: one context tracks two objects, one of them released by a
\* defer and the other one still neither released nor returned.
C14_Witness ==
    \E i \in 1..Len(funcStack), b1 \in Objs, b2 \in Objs :
      /\ b1 # b2
      /\ StatusOf(funcStack, i, b1) =
           [tracked |-> TRUE, ended |-> TRUE, deferred |-> TRUE, returned |-> FALSE]
      /\ StatusOf(funcStack, i, b2) =
           [tracked |-> TRUE, ended |-> FALSE, deferred |-> FALSE, returned |-> FALSE]

\* The step turns the entry of o in some context from unended to ended.
BecomesEnded(o) ==
    \E i \in 1..Len(funcStack) :
      /\ i <= Len(funcStack')
      /\ o \in DOMAIN funcStack[i].spans /\ ~funcStack[i].spans[o]
      /\ o \in DOMAIN funcStack'[i].spans /\ funcStack'[i].spans[o]

\* C15: defer o.End() visited before any acquisition of o marks nothing; an
\* acquisition of o, also after an earlier defer o.End(), leaves o tracked
\* and unreleased; and o becomes released only by a further release of o.
C15_DeferCountsAfterAcquisition ==
    [][\A o \in Objs :
         /\ \/ hist[o].nAcq # 0
            \/ funcStack' = funcStack
            \/ \A c \in BOOLEAN : ~Defer(DeferEnd(o), c)
         /\ \/ funcStack = <<>>
            \/ /\ o \in DOMAIN Top(funcStack').spans
               /\ ~Top(funcStack').spans[o]
            \/ ~Assign(StartAssign(o))
         /\ \/ ~BecomesEnded(o)
            \/ \E c \in BOOLEAN : Defer(DeferEnd(o), c)
            \/ \E r \in ResultLists : EndCall(o) \in NamedEnds(r) /\ Return(r)]_vars

\* C15 witness: o was acquired again after a recorded defer o.End(): its
\* context still has hasDefer[o] and holds o as unreleased.
C15_Witness ==
    \E o \in Objs, i \in 1..Len(funcStack) :
      /\ hist[o].nAcq = 2
      /\ Lookup(funcStack[i].hasDefer, o)
      /\ o \in DOMAIN funcStack[i].spans /\ ~funcStack[i].spans[o]

\* C16: no two findings of the same kind share a source position.
C16_FindingsUnique ==
    \A i \in 1..Len(findings), j \in 1..Len(findings) :
      (findings[i].pos = findings[j].pos /\ findings[i].kind = findings[j].kind)
        => i = j

\* C16 witness: several findings have been reported while one object is
\* tracked by the contexts of an outer function and of a nested literal.
C16_Witness ==
    /\ Len(findings) >= 2
    /\ \E o \in Objs, i \in 1..Len(funcStack), j \in 1..Len(funcStack) :
         i # j /\ o \in DOMAIN funcStack[i].spans /\ o \in DOMAIN funcStack[j].spans

\* The step changes nothing about the objects other than o, and no context
\* is pushed or popped.
OthersKept(o) ==
    /\ Len(funcStack') = Len(funcStack)
    /\ \A x \in (Objs \cup Others \cup {NoObj}) \ {o} :
         \A i \in 1..Len(funcStack) :
           StatusOf(funcStack', i, x) = StatusOf(funcStack, i, x)

\* C17: an acquisition assignment makes the object of its second left-hand
\* side a tracked, unreleased binding of the current function and changes
\* nothing else; any other assignment changes no tracked state.
C17_AcquisitionTracksHandle ==
    [][\A n \in AssignNodes :
         \/ IF n = StartAssign(n.obj) /\ n.obj \in Objs
            THEN /\ funcStack' # <<>>
                 /\ StatusOf(funcStack', Len(funcStack'), n.obj) =
                      [tracked |-> TRUE, ended |-> FALSE,
                       deferred |-> Lookup(Top(funcStack').hasDefer, n.obj),
                       returned |-> Lookup(Top(funcStack').returned, n.obj)]
                 /\ OthersKept(n.obj)
            ELSE funcStack' = funcStack
         \/ ~Assign(n)]_vars

\* C18: an assignment, defer or return statement seen while funcStack is
\* empty is ignored: the stack stays empty and no finding is emitted.
C18_EmptyStackIgnored ==
    [][\/ funcStack # <<>>
       \/ funcStack' = <<>> /\ findings' = findings
       \/ ~StatementEvent]_vars

\* C18 witness: an acquisition, a defer and a return of o have been visited
\* in a declared function while the stack was empty.
C18_Witness ==
    /\ funcStack = <<>> /\ findings = <<>>
    /\ \E o \in Objs :
         hist[o].nAcq > 0 /\ hist[o].defer # "none" /\ hist[o].retSeen

====
